---------------------------- MODULE Spec2Model ----------------------------
(***************************************************************************)
(* The projection engine of pension_app.py: the early-claim reduction,     *)
(* the yearly pension adjustment, the quarterly-compounded asset           *)
(* simulation, the merge of the two series and the crossover scan.         *)
(*                                                                         *)
(* Number representation.  The program computes in binary floating point,  *)
(* rounding every operation to the nearest representable number.  Here a   *)
(* dimensionless fraction (a rate, a factor, a power) is an integer count  *)
(* of 1/ONE and an amount of money is an integer count of 1/MoneyScale     *)
(* won; every multiplication and root rounds to the nearest representable  *)
(* number (ties to even), in the order the program performs them.  The     *)
(* recorded snapshot round(current_capital) is a whole number of won.      *)
(***************************************************************************)
EXTENDS Integers, Sequences, FiniteSets

\* ------------------------------------------------------------- bounds ---

\* Largest investment end age explored (the widget allows up to 100).
MaxEndAge == 77

\* Longest synthetic delta sequence handed to the crossover scan.
MaxLen == 4

\* Widest gap |current_age - pension_start_age| in direct calls of the adjuster.
MaxGap == 3

\* ------------------------------------------------- number representation --

ONE == 10000

MoneyScale == 10

\* n / d rounded to the nearest integer, ties to even (n >= 0, d > 0).
RoundDiv(n, d) ==
    LET q == n \div d
        r == n % d
    IN  IF 2 * r < d THEN q
        ELSE IF 2 * r > d THEN q + 1
        ELSE IF q % 2 = 0 THEN q ELSE q + 1

\* x * f for a fraction f (count of 1/ONE), rounded to nearest; the product
\* is formed in two halves so that no intermediate exceeds the result's range.
MulFrac(x, f) == (x \div ONE) * f + RoundDiv((x % ONE) * f, ONE)

\* b ** n for a fraction b and an integer n >= 0.
RECURSIVE Pow(_, _)
Pow(b, n) == IF n = 0 THEN ONE ELSE MulFrac(Pow(b, n - 1), b)

\* Largest k in lo..hi with k * k <= n (lo * lo <= n < (hi + 1) * (hi + 1)).
RECURSIVE ISqrt(_, _, _)
ISqrt(n, lo, hi) ==
    IF lo = hi THEN lo
    ELSE LET mid == (lo + hi + 1) \div 2
         IN  IF mid * mid <= n THEN ISqrt(n, mid, hi) ELSE ISqrt(n, lo, mid - 1)

\* Square root of a fraction f >= ONE, rounded to nearest.
SqrtFrac(f) ==
    LET n == f * ONE
        k == ISqrt(n, 0, f)
    IN  IF (k + 1) * (k + 1) - n < n - k * k THEN k + 1 ELSE k

\* f ** (1/4) for a fraction f >= ONE.
Root4(f) == SqrtFrac(SqrtFrac(f))

\* Python's round() of an amount of money: whole won, ties to even.
Round(x) == RoundDiv(x, MoneyScale)

\* An integer number of won as an amount of money.
Won(n) == n * MoneyScale

None == << >>

\* A missing cell of a data frame; a present cell v is <<v>>.
NaN == << >>

\* --------------------------------------------------------- user inputs ---

regular_pension_start_age == 65

MaxEarlyYears == 5

\* st.number_input(min 100,000, max 5,000,000): whole won.
BaseAmounts == {100000, 100005}

\* The same widget, including the documented reference amounts.
BaseAmountsWide == {100000, 100005, 250000, 1000000, 5000000}

EarlyYears == 0 .. MaxEarlyYears

EndAges == (regular_pension_start_age + 1) .. MaxEndAge

\* slider value in percent (one decimal) / 100, as a fraction.
Percent(tenths) == (tenths * ONE) \div 1000

ReturnRates == {Percent(0), Percent(10), Percent(50)}

IncreaseRates == {Percent(0), Percent(34)}

\* ------------------------------------------------------ pure functions ---

\* Variants: the penalty counted from one year too many, 5% a year, and 0.6
\* written for 0.06.
calculate_early_pension_reduction_rate_bad(years_early) ==
    ONE - (years_early + 1) * Percent(60)

calculate_early_pension_reduction_rate_five(years_early) ==
    ONE - years_early * Percent(50)

calculate_early_pension_reduction_rate_typo(years_early) ==
    ONE - years_early * Percent(600)

\* 1 - (years_early * 0.06)
calculate_early_pension_reduction_rate(years_early) ==
    ONE - years_early * Percent(60)

\* Line 24: base * ((1 + rate) ** years_since_start).
adjusted_monthly_pension(base_monthly_pension, pension_start_age, current_age, rate) ==
    MulFrac(base_monthly_pension, Pow(ONE + rate, current_age - pension_start_age))

\* Variant: the start year itself treated as not yet payable.
calculate_annual_pension_with_increase_rate_off(base_monthly_pension, pension_start_age, current_age, rate) ==
    IF current_age <= pension_start_age THEN 0
    ELSE adjusted_monthly_pension(base_monthly_pension, pension_start_age, current_age, rate) * 12

\* Lines 20-25: 0 before the start age, else the adjusted monthly amount * 12.
calculate_annual_pension_with_increase_rate(base_monthly_pension, pension_start_age, current_age, rate) ==
    IF current_age < pension_start_age THEN 0
    ELSE adjusted_monthly_pension(base_monthly_pension, pension_start_age, current_age, rate) * 12


\* Variant: one month of income a quarter.
QuarterStepMonthly(capital, monthly, qrate) == MulFrac(capital + monthly, ONE + qrate)

\* 3 months of income added, then one quarter of return (lines 59, 61).
QuarterStep(capital, monthly, qrate) == MulFrac(capital + monthly * 3, ONE + qrate)

QuartersPerYear == 4

RECURSIVE Quarters(_, _, _, _)
Quarters(capital, monthly, qrate, n) ==
    IF n = 0 THEN capital
    ELSE QuarterStep(Quarters(capital, monthly, qrate, n - 1), monthly, qrate)

\* Variant: the rounded snapshot is what the next year compounds from.
AgeYearFeedback(capital, monthly, qrate) ==
    LET c == Quarters(capital, monthly, qrate, QuartersPerYear)
    IN  [capital |-> Won(Round(c)), recorded |-> Round(c)]

\* One age-year of the simulation loop: the capital carried into the next
\* year and the snapshot appended to data.
AgeYear(capital, monthly, qrate) ==
    LET c == Quarters(capital, monthly, qrate, QuartersPerYear)
    IN  [capital |-> c, recorded |-> Round(c)]

\* Variant: range(investment_start_age, investment_end_age).
AgeRangeOpen(start_age, end_age) == start_age .. (end_age - 1)

\* range(investment_start_age, investment_end_age + 1)
AgeRange(start_age, end_age) == start_age .. end_age

\* (1 + annual_return_rate) ** (1/4) - 1
QuarterlyRate(annual) == Root4(ONE + annual) - ONE

\* ------------------------------------------------------- data frames ---

\* pd.DataFrame({'age': range(first, last + 1)})
RECURSIVE AgeFrame(_, _)
AgeFrame(first, last) ==
    IF first > last THEN << >> ELSE << [age |-> first] >> \o AgeFrame(first + 1, last)

\* The assets cells a left join on age finds in df for one left row: one
\* per matching row of df, a single NaN when none matches.
JoinCells(df, a) ==
    LET Match(r) == r.age = a
        m == SelectSeq(df, Match)
    IN  IF m = << >> THEN << NaN >> ELSE [k \in 1 .. Len(m) |-> << m[k].assets >>]

\* pd.merge(left, early_df, on=age, how='left'), assets renamed to early.
RECURSIVE MergeEarly(_, _)
MergeEarly(left, df) ==
    IF left = << >> THEN << >>
    ELSE LET cells == JoinCells(df, Head(left).age)
         IN  [k \in 1 .. Len(cells) |-> [age |-> Head(left).age, early |-> cells[k]]]
             \o MergeEarly(Tail(left), df)

\* pd.merge(left, regular_df, on=age, how='left'), assets renamed to regular.
RECURSIVE MergeRegular(_, _)
MergeRegular(left, df) ==
    IF left = << >> THEN << >>
    ELSE LET cells == JoinCells(df, Head(left).age)
         IN  [k \in 1 .. Len(cells) |->
                 [age |-> Head(left).age, early |-> Head(left).early, regular |-> cells[k]]]
             \o MergeRegular(Tail(left), df)

\* Variant: the fill is left out.
FillNaNone(cell) == cell

\* Series.fillna(0) on one cell.
FillNa(cell) == IF cell = NaN THEN << 0 >> ELSE cell

\* Variant: regular - early.
DeltaSwapped(early, regular) ==
    IF early = NaN \/ regular = NaN THEN NaN ELSE << regular[1] - early[1] >>

\* early - regular on one row; NaN if either is missing.
Delta(early, regular) ==
    IF early = NaN \/ regular = NaN THEN NaN ELSE << early[1] - regular[1] >>

\* Lines 182-193: the merged frame with its delta column.
MergedFrame(first, last, early_df, regular_df) ==
    LET joined == MergeRegular(MergeEarly(AgeFrame(first, last), early_df), regular_df)
    IN  [k \in 1 .. Len(joined) |->
            LET reg == FillNa(joined[k].regular)
            IN  [age     |-> joined[k].age,
                 early   |-> joined[k].early,
                 regular |-> reg,
                 delta   |-> Delta(joined[k].early, reg)]]

\* Comparisons of a cell with 0; every comparison with NaN is false.
Gt0(cell) == cell # NaN /\ cell[1] > 0
Le0(cell) == cell # NaN /\ cell[1] <= 0
Lt0(cell) == cell # NaN /\ cell[1] < 0
Ge0(cell) == cell # NaN /\ cell[1] >= 0

\* Variant: the first branch with a strict second comparison.
FallsAtStrict(df, i) == Gt0(df[i].delta) /\ Lt0(df[i + 1].delta)

\* The two branches of the scan at Python index i (rows i-1 and i).
FallsAt(df, i) == Gt0(df[i].delta) /\ Le0(df[i + 1].delta)
RisesAt(df, i) == Lt0(df[i].delta) /\ Ge0(df[i + 1].delta)

\* -------------------------------------------------------------- state ---

VARIABLES
    base_regular_monthly_pension,   \* widget: whole won
    early_pension_years,            \* widget: 0..5
    investment_end_age,             \* widget
    annual_return_rate,             \* slider / 100, a fraction
    pension_increase_rate,          \* slider / 100, a fraction
    early_pension_start_age,
    early_pension_reduction_rate,
    early_monthly_pension_at_start,
    pension_type,                   \* simulate_investment's frame
    investment_start_age,
    age,
    current_capital,
    quarterly_return_rate,
    annual_pension_income_for_current_year,
    monthly_pension_amount_received,
    data,
    early_pension_df,
    regular_pension_df,
    merged_df,
    i,                              \* the scan's index (Python, 0-based)
    crossover_age,
    message,
    pc

inputs == << base_regular_monthly_pension, early_pension_years, investment_end_age,
             annual_return_rate, pension_increase_rate >>

derived == << early_pension_start_age, early_pension_reduction_rate,
              early_monthly_pension_at_start >>

frame == << pension_type, investment_start_age, age, current_capital,
            quarterly_return_rate, annual_pension_income_for_current_year,
            monthly_pension_amount_received, data >>

frames == << early_pension_df, regular_pension_df, merged_df >>

scan == << i, crossover_age, message >>

vars == << inputs, derived, frame, frames, scan, pc >>

\* What the script has not assigned yet.
DerivedUnassigned ==
    /\ early_pension_start_age = 0
    /\ early_pension_reduction_rate = 0
    /\ early_monthly_pension_at_start = 0

FrameUnassigned ==
    /\ pension_type = ""
    /\ investment_start_age = 0
    /\ age = 0
    /\ current_capital = 0
    /\ quarterly_return_rate = 0
    /\ annual_pension_income_for_current_year = 0
    /\ monthly_pension_amount_received = 0
    /\ data = << >>

ResultsUnassigned ==
    /\ early_pension_df = << >>
    /\ regular_pension_df = << >>
    /\ merged_df = << >>
    /\ i = 0
    /\ crossover_age = None
    /\ message = ""

Unassigned == DerivedUnassigned /\ FrameUnassigned /\ ResultsUnassigned

\* The widgets hold their values; the script is about to run (line 134).
Init ==
    /\ base_regular_monthly_pension \in BaseAmounts
    /\ early_pension_years \in EarlyYears
    /\ investment_end_age \in EndAges
    /\ annual_return_rate \in ReturnRates
    /\ pension_increase_rate \in IncreaseRates
    /\ Unassigned
    /\ pc = "calc"

\* Lines 134-137.
Calc ==
    /\ pc = "calc"
    /\ early_pension_start_age' = regular_pension_start_age - early_pension_years
    /\ early_pension_reduction_rate' =
           calculate_early_pension_reduction_rate(early_pension_years)
    /\ early_monthly_pension_at_start' =
           MulFrac(Won(base_regular_monthly_pension),
                   calculate_early_pension_reduction_rate(early_pension_years))
    /\ pc' = "call_early"
    /\ UNCHANGED << inputs, frame, frames, scan >>

\* simulate_investment's arguments at its two call sites (lines 155-179).
InitialCapital == 0

StartAgeOf(type) ==
    IF type = "early" THEN early_pension_start_age ELSE regular_pension_start_age

\* Lines 33-37: entry of simulate_investment.
SimBegin(type) ==
    /\ pc = (IF type = "early" THEN "call_early" ELSE "call_regular")
    /\ pension_type' = type
    /\ investment_start_age' = StartAgeOf(type)
    /\ age' = StartAgeOf(type)
    /\ data' = << >>
    /\ current_capital' = Won(InitialCapital)
    /\ quarterly_return_rate' = QuarterlyRate(annual_return_rate)
    /\ pc' = "sim"
    /\ UNCHANGED << inputs, derived, annual_pension_income_for_current_year,
                    monthly_pension_amount_received, frames, scan >>

\* Lines 42-51: this year's income by strategy.
IncomeFor(type, a) ==
    IF type = "early"
    THEN calculate_annual_pension_with_increase_rate(
             early_monthly_pension_at_start, early_pension_start_age, a,
             pension_increase_rate)
    ELSE calculate_annual_pension_with_increase_rate(
             Won(base_regular_monthly_pension), regular_pension_start_age, a,
             pension_increase_rate)

\* Lines 39-63: one iteration of the age loop.
SimStep ==
    /\ pc = "sim"
    /\ age \in AgeRange(investment_start_age, investment_end_age)
    /\ LET income  == IncomeFor(pension_type, age)
           monthly == RoundDiv(income, 12)
           year    == AgeYear(current_capital, monthly, quarterly_return_rate)
       IN  /\ annual_pension_income_for_current_year' = income
           /\ monthly_pension_amount_received' = monthly
           /\ current_capital' = year.capital
           /\ data' = Append(data, [age |-> age, assets |-> year.recorded])
    /\ age' = age + 1
    /\ UNCHANGED << inputs, derived, pension_type, investment_start_age,
                    quarterly_return_rate, frames, scan, pc >>

\* Line 65 and the assignment of the result at the call site.
SimReturn ==
    /\ pc = "sim"
    /\ age \notin AgeRange(investment_start_age, investment_end_age)
    /\ IF pension_type = "early"
       THEN /\ early_pension_df' = data
            /\ pc' = "call_regular"
            /\ UNCHANGED regular_pension_df
       ELSE /\ regular_pension_df' = data
            /\ pc' = "merge"
            /\ UNCHANGED early_pension_df
    /\ UNCHANGED << inputs, derived, frame, merged_df, scan >>

\* Lines 182-193.
Merge ==
    /\ pc = "merge"
    /\ merged_df' = MergedFrame(early_pension_start_age, investment_end_age,
                                early_pension_df, regular_pension_df)
    /\ crossover_age' = None
    /\ i' = 1
    /\ pc' = "scan"
    /\ UNCHANGED << inputs, derived, frame, early_pension_df, regular_pension_df, message >>

\* Lines 227-235: one iteration of the scan, with its breaks.
ScanStep ==
    /\ pc = "scan"
    /\ i \in 1 .. Len(merged_df) - 1
    /\ IF FallsAt(merged_df, i)
       THEN crossover_age' = << merged_df[i + 1].age >> /\ pc' = "report" /\ i' = i
       ELSE IF RisesAt(merged_df, i)
       THEN crossover_age' = << merged_df[i + 1].age >> /\ pc' = "report" /\ i' = i
       ELSE crossover_age' = crossover_age /\ pc' = pc /\ i' = i + 1
    /\ UNCHANGED << inputs, derived, frame, frames, message >>

\* The scan's range is exhausted without a break.
ScanExit ==
    /\ pc = "scan"
    /\ i \notin 1 .. Len(merged_df) - 1
    /\ pc' = "report"
    /\ UNCHANGED << inputs, derived, frame, frames, scan >>

\* Lines 237-243: "if crossover_age:" is false for None and for 0.
Report ==
    /\ pc = "report"
    /\ message' = (IF crossover_age # None /\ crossover_age[1] # 0
                   THEN "crossover" ELSE "no crossover")
    /\ pc' = "done"
    /\ UNCHANGED << inputs, derived, frame, frames, i, crossover_age >>

Next ==
    \/ Calc
    \/ SimBegin("early")
    \/ SimBegin("regular")
    \/ SimStep
    \/ SimReturn
    \/ Merge
    \/ ScanStep
    \/ ScanExit
    \/ Report

Spec == Init /\ [][Next]_vars


\* ---------------------------------------- the reduction on the full widget --

\* As Init, over the amounts the spec's scenarios use.
InitCalc ==
    /\ base_regular_monthly_pension \in BaseAmountsWide
    /\ early_pension_years \in EarlyYears
    /\ investment_end_age \in EndAges
    /\ annual_return_rate \in ReturnRates
    /\ pension_increase_rate \in IncreaseRates
    /\ Unassigned
    /\ pc = "calc"

SpecCalc == InitCalc /\ [][Calc]_vars

\* ------------------------------------------- the adjuster called directly --

\* Lines 134-137 have run; the adjuster is about to be called for one
\* strategy at a current age on either side of that strategy's start age.
InitAdjust ==
    /\ base_regular_monthly_pension \in BaseAmounts
    /\ early_pension_years \in EarlyYears
    /\ investment_end_age \in {MaxEndAge}
    /\ annual_return_rate \in {Percent(0)}
    /\ pension_increase_rate \in IncreaseRates \cup {Percent(100)}
    /\ early_pension_start_age = regular_pension_start_age - early_pension_years
    /\ early_pension_reduction_rate =
           calculate_early_pension_reduction_rate(early_pension_years)
    /\ early_monthly_pension_at_start =
           MulFrac(Won(base_regular_monthly_pension),
                   calculate_early_pension_reduction_rate(early_pension_years))
    /\ pension_type \in {"early", "regular"}
    /\ investment_start_age = StartAgeOf(pension_type)
    /\ age \in (StartAgeOf(pension_type) - MaxGap) .. (StartAgeOf(pension_type) + MaxGap)
    /\ current_capital = 0
    /\ quarterly_return_rate = 0
    /\ annual_pension_income_for_current_year = 0
    /\ monthly_pension_amount_received = 0
    /\ data = << >>
    /\ ResultsUnassigned
    /\ pc = "adjust"

\* Lines 42-54 alone: the strategy's income for current age `age`.
Adjust ==
    /\ pc = "adjust"
    /\ annual_pension_income_for_current_year' = IncomeFor(pension_type, age)
    /\ monthly_pension_amount_received' = RoundDiv(IncomeFor(pension_type, age), 12)
    /\ pc' = "adjusted"
    /\ UNCHANGED << inputs, derived, pension_type, investment_start_age, age,
                    current_capital, quarterly_return_rate, data, frames, scan >>

SpecAdjust == InitAdjust /\ [][Adjust]_vars

\* ------------------------------------- the scan on an arbitrary delta column --

DeltaValues == {-3, -2, -1, 0, 2, 3, 5}

FirstAges == {60, 65}

\* A merged frame whose delta column is d, at consecutive ages from first.
SyntheticFrame(first, d) ==
    [k \in 1 .. Len(d) |->
        [age     |-> first + k - 1,
         early   |-> << IF d[k] > 0 THEN d[k] ELSE 0 >>,
         regular |-> << IF d[k] < 0 THEN 0 - d[k] ELSE 0 >>,
         delta   |-> << d[k] >>]]

\* Line 226 has run on some merged frame.
InitScan ==
    /\ base_regular_monthly_pension \in {100000}
    /\ early_pension_years \in {0}
    /\ investment_end_age \in {MaxEndAge}
    /\ annual_return_rate \in {Percent(0)}
    /\ pension_increase_rate \in {Percent(0)}
    /\ DerivedUnassigned
    /\ FrameUnassigned
    /\ early_pension_df = << >>
    /\ regular_pension_df = << >>
    /\ \E n \in 1 .. MaxLen : \E first \in FirstAges : \E d \in [1 .. n -> DeltaValues] :
           merged_df = SyntheticFrame(first, d)
    /\ i = 1
    /\ crossover_age = None
    /\ message = ""
    /\ pc = "scan"

NextScan ==
    \/ ScanStep
    \/ ScanExit
    \/ Report

SpecScan == InitScan /\ [][NextScan]_vars


\* ------------------------------------------------------------ properties --

AfterScan == pc \in {"report", "done"}

AfterMerge == pc \in {"scan", "report", "done"}

AfterEarlyRun == pc \in {"call_regular", "merge"} \/ AfterMerge \/ (pc = "sim" /\ pension_type = "regular")

AfterRegularRun == pc = "merge" \/ AfterMerge

\* The delta column of the merged frame as plain numbers (no cell missing).
DeltaColumn == [k \in 1 .. Len(merged_df) |-> merged_df[k].delta[1]]

NoneMissing == \A k \in 1 .. Len(merged_df) : merged_df[k].delta # NaN

\* Python indices i >= 1 at which the delta column changes sign in the
\* sense of the scan.
SignChanges ==
    {k \in 1 .. Len(merged_df) - 1 :
        \/ DeltaColumn[k] > 0 /\ DeltaColumn[k + 1] <= 0
        \/ DeltaColumn[k] < 0 /\ DeltaColumn[k + 1] >= 0}

FirstSignChange == CHOOSE k \in SignChanges : \A j \in SignChanges : k <= j

\* C1: once the scan has ended, crossover_age is the age at the smallest
\* index i >= 1 with (delta[i-1] > 0 and delta[i] <= 0) or (delta[i-1] < 0 and
\* delta[i] >= 0), whatever transitions follow, and it is absent exactly when
\* there is no such index; [+3, 0, -2] reports the age of the 0 and
\* [+5, +2, -1, -3] at ages 65..68 reports 67.
C1_FirstSignChangeReported ==
    (AfterScan /\ NoneMissing) =>
        /\ (crossover_age = None) <=> (SignChanges = {})
        /\ SignChanges # {} => crossover_age = << merged_df[FirstSignChange + 1].age >>
        /\ DeltaColumn = << 3, 0, -2 >> => crossover_age = << merged_df[2].age >>
        /\ (DeltaColumn = << 5, 2, -1, -3 >> /\ merged_df[1].age = 65) => crossover_age = << 67 >>

C1_Witness ==
    /\ pc = "done"
    /\ DeltaColumn = << 5, 2, -1, -3 >>
    /\ merged_df[1].age = 65
    /\ crossover_age = << 67 >>
    /\ message = "crossover"

\* The entry of a series for one age, as a set (empty when there is none).
ValueAt(df, a) == {df[k].assets : k \in {j \in 1 .. Len(df) : df[j].age = a}}

\* C2: the merged frame has exactly one row for every age from the early
\* start age to the end age, in increasing order; in each row the regular
\* assets are 0 before the regular start age and the regular series' value
\* for that age otherwise, the early assets are the early series' value for
\* that age, and delta = early - regular.
C2_MergedRows ==
    AfterMerge =>
        /\ Len(merged_df) = investment_end_age - early_pension_start_age + 1
        /\ \A k \in 1 .. Len(merged_df) :
               LET row == merged_df[k]
               IN  /\ row.age = early_pension_start_age + k - 1
                   /\ row.early # NaN /\ row.regular # NaN /\ row.delta # NaN
                   /\ ValueAt(early_pension_df, row.age) = {row.early[1]}
                   /\ IF row.age < regular_pension_start_age
                      THEN row.regular[1] = 0
                      ELSE ValueAt(regular_pension_df, row.age) = {row.regular[1]}
                   /\ row.delta[1] = row.early[1] - row.regular[1]

C2_Witness ==
    /\ pc = "scan"
    /\ early_pension_years = MaxEarlyYears
    /\ Len(merged_df) > MaxEarlyYears + 1
    /\ merged_df[1].regular = << 0 >>
    /\ merged_df[1].delta[1] > 0
    /\ merged_df[MaxEarlyYears + 1].regular[1] > 0

\* The monthly amount a strategy starts from, and its start age.
StartingMonthly(type) ==
    IF type = "early" THEN early_monthly_pension_at_start
    ELSE Won(base_regular_monthly_pension)

ZeroRates == annual_return_rate = 0 /\ pension_increase_rate = 0

\* startingMonthly * 12 * (A - startAge + 1), as an amount of money.
FlatTotal(type, a) == StartingMonthly(type) * 12 * (a - StartAgeOf(type) + 1)

\* C3 as stated: with zero return and zero increase, the assets recorded at
\* every age A equal startingMonthly * 12 * (A - startAge + 1) exactly.
C3_ExactFlatTotal ==
    (pc = "sim" /\ ZeroRates) =>
        \A k \in 1 .. Len(data) :
            Won(data[k].assets) = FlatTotal(pension_type, data[k].age)

\* C3 amended: with zero return and zero increase, the assets recorded at
\* every age A equal startingMonthly * 12 * (A - startAge + 1) rounded to the
\* nearest whole unit, hence exactly that product whenever it is whole (as it
\* always is for the regular strategy).
C3_RoundedFlatTotal ==
    (pc = "sim" /\ ZeroRates) =>
        \A k \in 1 .. Len(data) :
            LET total == FlatTotal(pension_type, data[k].age)
            IN  /\ 2 * (Won(data[k].assets) - total) <= MoneyScale
                /\ 2 * (total - Won(data[k].assets)) <= MoneyScale
                /\ total % MoneyScale = 0 => Won(data[k].assets) = total
                /\ pension_type = "regular" => Won(data[k].assets) = total

C3_Witness ==
    /\ pc = "sim"
    /\ ZeroRates
    /\ pension_type = "early"
    /\ early_pension_years = 1
    /\ base_regular_monthly_pension = 100005
    /\ Len(data) = 2
    /\ data[2].age = 65
    /\ data[2].assets = 2256113
    /\ FlatTotal("early", 65) = 22561128

\* C4: with a nonnegative return rate and nonnegative pension income, the
\* recorded assets of a series never decrease from one age to the next.
C4_NonDecreasing ==
    \A df \in {data, early_pension_df, regular_pension_df} :
        \A k \in 1 .. Len(df) - 1 : df[k + 1].assets >= df[k].assets

C4_Witness ==
    /\ pc = "sim"
    /\ annual_return_rate > 0
    /\ pension_type = "early"
    /\ early_pension_years > 0
    /\ Len(data) >= 3
    /\ data[3].assets > data[2].assets
    /\ data[2].assets > data[1].assets

\* C5: the adjusted monthly pension is 0 whenever the current age is below
\* the start age, exactly the base amount at the start age, and otherwise
\* base * (1 + rate) ** (current age - start age); the function hands it
\* back as the year's amount, 12 times the monthly one.
C5_AdjustedMonthly ==
    pc = "adjusted" =>
        LET base   == StartingMonthly(pension_type)
            start  == StartAgeOf(pension_type)
            annual == annual_pension_income_for_current_year
        IN  /\ age < start => annual = 0
            /\ age = start => annual = 12 * base
            /\ age > start =>
                   annual = 12 * MulFrac(base, Pow(ONE + pension_increase_rate, age - start))
            /\ (age > start /\ pension_increase_rate = 0) => annual = 12 * base
            /\ (age > start /\ pension_increase_rate > 0) => annual > 12 * base

C5_Witness ==
    /\ pc = "adjusted"
    /\ pension_type = "regular"
    /\ base_regular_monthly_pension = 100000
    /\ pension_increase_rate = Percent(100)
    /\ age = regular_pension_start_age + 2
    /\ annual_pension_income_for_current_year = 12 * Won(121000)

\* C6: the reduction factor is 1 - 0.06 * years for 0..5 years, exactly 1 at
\* 0 and 0.70 at 5; the early strategy starts from base * factor (700,000
\* for a base of 1,000,000 five years early) and the regular strategy from
\* the unreduced base.
C6_ReductionFactor ==
    pc = "call_early" =>
        /\ early_pension_years \in 0 .. 5
        /\ 100 * early_pension_reduction_rate = (100 - 6 * early_pension_years) * ONE
        /\ early_pension_years = 0 => early_pension_reduction_rate = ONE
        /\ early_pension_years = 5 => 10 * early_pension_reduction_rate = 7 * ONE
        /\ 2 * early_monthly_pension_at_start =
               (Won(base_regular_monthly_pension) \div 50) * (100 - 6 * early_pension_years)
        /\ IncomeFor("early", early_pension_start_age) = 12 * early_monthly_pension_at_start
        /\ IncomeFor("regular", regular_pension_start_age) =
               12 * Won(base_regular_monthly_pension)

C6_Witness ==
    /\ pc = "call_early"
    /\ base_regular_monthly_pension = 1000000
    /\ early_pension_years = 5
    /\ 10 * early_pension_reduction_rate = 7 * ONE
    /\ early_monthly_pension_at_start = Won(700000)

\* One entry per age from start to the end age, in increasing order.
CoversAges(df, start) ==
    /\ Len(df) = investment_end_age - start + 1
    /\ \A k \in 1 .. Len(df) : df[k].age = start + k - 1

\* C7: a run yields exactly one entry per age from its start age to the end
\* age inclusive, in strictly increasing age order; the early series begins
\* at the early start age and the regular series at the regular start age,
\* each from an initial capital of 0.
C7_OneEntryPerAge ==
    /\ AfterEarlyRun => CoversAges(early_pension_df, early_pension_start_age)
    /\ AfterRegularRun => CoversAges(regular_pension_df, regular_pension_start_age)
    /\ pc = "sim" =>
           /\ investment_start_age = StartAgeOf(pension_type)
           /\ \A k \in 1 .. Len(data) : data[k].age = investment_start_age + k - 1
           /\ \A k \in 1 .. Len(data) - 1 : data[k].age < data[k + 1].age
           /\ data = << >> => (current_capital = 0 /\ age = investment_start_age)

C7_Witness ==
    /\ pc = "merge"
    /\ early_pension_years = MaxEarlyYears
    /\ Len(early_pension_df) = Len(regular_pension_df) + MaxEarlyYears
    /\ early_pension_df[1].age = regular_pension_start_age - MaxEarlyYears
    /\ regular_pension_df[1].age = regular_pension_start_age
    /\ early_pension_df[Len(early_pension_df)].age = investment_end_age
    /\ regular_pension_df[Len(regular_pension_df)].age = investment_end_age

\* C8: recording a snapshot leaves the running capital alone: the capital
\* after an age-year is four (add 3 * monthly, multiply by 1 + quarterly
\* rate) steps applied to the unrounded capital before it, and the value
\* recorded for the year is that capital rounded to the nearest integer.
C8_SnapshotLeavesCapital ==
    [][(pc = "sim" /\ Len(data') = Len(data) + 1) =>
          LET m == monthly_pension_amount_received'
              q == quarterly_return_rate
              step1 == MulFrac(current_capital + 3 * m, ONE + q)
              step2 == MulFrac(step1 + 3 * m, ONE + q)
              step3 == MulFrac(step2 + 3 * m, ONE + q)
              step4 == MulFrac(step3 + 3 * m, ONE + q)
              shown == Won(data'[Len(data')].assets)
          IN  /\ current_capital' = step4
              /\ 2 * (shown - current_capital') <= MoneyScale
              /\ 2 * (current_capital' - shown) <= MoneyScale]_vars

C8_Witness ==
    /\ pc = "sim"
    /\ annual_return_rate > 0
    /\ Len(data) >= 2
    /\ current_capital % MoneyScale # 0
    /\ current_capital # Won(data[Len(data)].assets)
    /\ data[Len(data)].assets = Round(current_capital)

\* C9: a reported crossover age is always one where delta goes from
\* positive to non-positive; delta at the first age is never negative, and
\* no delta is negative without such a transition at or before it, which is
\* then the one reported.
C9_OnlyFallingCrossover ==
    (AfterMerge /\ NoneMissing) =>
        /\ DeltaColumn[1] >= 0
        /\ \A j \in 1 .. Len(merged_df) :
               DeltaColumn[j] < 0 =>
                   \E k \in 1 .. j - 1 : DeltaColumn[k] > 0 /\ DeltaColumn[k + 1] <= 0
        /\ (AfterScan /\ crossover_age # None) =>
               \E k \in 1 .. Len(merged_df) - 1 :
                   /\ merged_df[k + 1].age = crossover_age[1]
                   /\ DeltaColumn[k] > 0
                   /\ DeltaColumn[k + 1] <= 0
                   /\ \A j \in 1 .. k : DeltaColumn[j] > 0
        /\ AfterScan =>
               \A j \in 1 .. Len(merged_df) :
                   DeltaColumn[j] < 0 =>
                       (crossover_age # None /\ crossover_age[1] <= merged_df[j].age)

C9_Witness ==
    /\ pc = "done"
    /\ annual_return_rate > 0
    /\ crossover_age # None
    /\ message = "crossover"
    /\ \E k \in 1 .. Len(merged_df) - 1 :
           /\ merged_df[k + 1].age = crossover_age[1]
           /\ merged_df[k].delta[1] > 0
           /\ merged_df[k + 1].delta[1] < 0

\* C10: with 0 early years both simulations start at the same age from the
\* same monthly amount, the two series are identical, delta is 0 at every
\* age and no crossover age is reported.
C10_NoEarlyYears ==
    early_pension_years = 0 =>
        /\ pc # "calc" =>
               /\ early_pension_start_age = regular_pension_start_age
               /\ early_monthly_pension_at_start = Won(base_regular_monthly_pension)
        /\ AfterRegularRun => early_pension_df = regular_pension_df
        /\ AfterMerge => \A k \in 1 .. Len(merged_df) : merged_df[k].delta = << 0 >>
        /\ AfterScan => crossover_age = None
        /\ pc = "done" => message = "no crossover"

C10_Witness ==
    /\ pc = "done"
    /\ early_pension_years = 0
    /\ annual_return_rate > 0
    /\ pension_increase_rate > 0
    /\ crossover_age = None
    /\ Len(merged_df) > 1
    /\ merged_df[2].early[1] > merged_df[1].early[1]
    /\ merged_df[2].delta = << 0 >>

=============================================================================
